---- MODULE Spec2Model ----
(***************************************************************************)
(* A model of PromptCraft Studio: the prompt-history store                 *)
(* (src/history_manager.py) and, of src/promptcraft_studio.py, the         *)
(* conversation memory, the corrector of the input text, the spell-check   *)
(* dialog, the sanitizer of the input and the generation of a prompt.      *)
(* Each part has its own specification over the                            *)
(* variables it uses; the variables of the other parts keep the values     *)
(* they have when that part was never used.                                *)
(*   Spec              HistoryManager: add, delete, clear, import, load    *)
(*   SpecQuery         HistoryManager: get, search, export                 *)
(*   SpecConversation  load, append, clear and summary of the conversation *)
(*   SpecCorrector     apply_corrections as a function of text and list    *)
(*   SpecDialog        spell_check_prompt and the SpellCheckDialog         *)
(*   SpecExchange      generate_ml_prompt and the conversation log         *)
(*   SpecSanitize      validate_and_sanitize_input as a function of text   *)
(*   SpecGenerate      generate_prompt, the Generate button and Tk events  *)
(*                                                                         *)
(* Values.  In Spec the text fields of an entry are strings.  A timestamp  *)
(* is a JSON value that may be null, a string or a number; Python orders   *)
(* strings among themselves and numbers among themselves and raises        *)
(* TypeError on a mixed comparison, so a timestamp is a record             *)
(* [type, ord]: ord is the rank of the value among the values of its type  *)
(* (for ISO-8601 strings of one format the lexicographic order is the      *)
(* order of the instants), and ord = 0 is the falsy value of the type      *)
(* ("" or 0).                                                              *)
(***************************************************************************)
EXTENDS Integers, Sequences, FiniteSets, TLC

VARIABLES
    history,    \* HistoryManager.history: the in-memory entries, index 1 is Python's index 0
    file,       \* the content of HistoryManager.history_file
    clock,      \* the reading of datetime.now(), as the rank of its isoformat() string
    ioFailures, \* the writes of history_file or conversation_file that have failed so far
    nAdds,      \* add_entry calls made since the store was last empty, -1 once another mutation intervened
    last,       \* the most recent call: its name and its outcome
    ret,        \* the value the most recent call of a HistoryManager query returned
    export_file,          \* the content of the file export_history writes when it is not history_file
    conversation_history, \* AIPromptGenerator.conversation_history
    conversation_file,    \* the content of AIPromptGenerator.conversation_file
    appended,             \* the messages add_to_conversation was given since the log was last empty
    input_text,      \* the content of the input text widget, a sequence of characters
    dialog,          \* "open" while a SpellCheckDialog is shown, else "closed"
    errors,          \* SpellCheckDialog.errors
    corrections,     \* SpellCheckDialog.corrections
    ignored_indices, \* SpellCheckDialog.ignored_indices
    original_text,   \* SpellCheckDialog.original_text: the text the errors were found on
    applied,         \* the corrections the dialog has handed to apply_callback, in order
    client_type,     \* AIPromptGenerator.client_type, "none" for None (self.client is None with it)
    api,             \* what became of the API call of the most recent generate_ml_prompt
    generate_button, \* the GoldButton generate_button: is_disabled, is_hovered, is_pressed
    pointer,         \* the mouse: over the button or not, its button held or not
    scheduled,       \* the callbacks after(50, self.command) that have not run yet
    frames,          \* the generate_prompt invocations that have not returned, innermost last
    done             \* the most recent generate_prompt invocation that returned

\* the variables of the queries of HistoryManager, of the conversation memory,
\* of the spell check and of the generation of a prompt
queryVars == <<ret, export_file>>
conversationVars == <<conversation_history, conversation_file, appended>>
textVars == <<input_text, dialog, errors, corrections, ignored_indices, original_text, applied>>
generateVars == <<client_type, api, generate_button, pointer, scheduled, frames, done>>

vars == <<history, file, clock, ioFailures, nAdds, last,
          queryVars, conversationVars, textVars, generateVars>>

----------------------------------------------------------------------------
(* Bounds of the model *)

\* max_history as modelled (the program keeps 100 entries)
MaxHistoryScaled == 2
\* the largest reading of the clock
MaxClock == 2
\* the writes of history_file that fail in one run
MaxIoFailures == 1

----------------------------------------------------------------------------
(* Values *)

max_history == MaxHistoryScaled

\* the longest in-memory list explored: a failed merge leaves an untrimmed list,
\* which the next failed merge would extend again
MaxLen == max_history + 1

\* add_entry calls counted from an empty store, past max_history
MaxAdds == max_history + 2

TsNull == [type |-> "null", ord |-> 0]
TsStr(n) == [type |-> "str", ord |-> n]
TsNum(n) == [type |-> "num", ord |-> n]

\* Python truthiness of a timestamp value: None, "" and 0 are falsy
Truthy(v) == v.type # "null" /\ v.ord # 0

\* datetime.now().isoformat()
Now(c) == TsStr(c)

Min(a, b) == IF a <= b THEN a ELSE b

\* dict.get(key, default)
Get(d, key, default) == IF key \in DOMAIN d THEN d[key] ELSE default

\* PromptHistoryEntry.__init__: timestamp or datetime.now().isoformat()
PromptHistoryEntry(user_input, generated_prompt, template_id, timestamp, c) ==
    [user_input |-> user_input,
     generated_prompt |-> generated_prompt,
     template_id |-> template_id,
     timestamp |-> IF Truthy(timestamp) THEN timestamp ELSE Now(c)]

\* a slip of to_dict: the timestamp is left out
to_dict_untimed(e) ==
    [user_input |-> e.user_input,
     generated_prompt |-> e.generated_prompt,
     template_id |-> e.template_id]

to_dict(e) ==
    [user_input |-> e.user_input,
     generated_prompt |-> e.generated_prompt,
     template_id |-> e.template_id,
     timestamp |-> e.timestamp]

from_dict(d, c) ==
    PromptHistoryEntry(Get(d, "user_input", ""),
                       Get(d, "generated_prompt", ""),
                       Get(d, "template_id", "context_aware"),
                       Get(d, "timestamp", TsNull),
                       c)

\* [entry.to_dict() for entry in self.history]
ToDicts(h) == [i \in 1..Len(h) |-> to_dict(h[i])]

\* [PromptHistoryEntry.from_dict(entry) for entry in history_data]
FromDicts(ds, c) == [i \in 1..Len(ds) |-> from_dict(ds[i], c)]

----------------------------------------------------------------------------
(* Files.  kind is what reading the file meets:                           *)
(*   missing    no such file (open raises)                                 *)
(*   malformed  not JSON, e.g. a truncated write (json.load raises)       *)
(*   notobject  JSON whose top level is no object (data.get raises)       *)
(*   baditem    a history array holding a non-object (from_dict raises)   *)
(*   ok         {"version": "1.0", "history": [...]}                       *)

FileOf(kind, ds) == [kind |-> kind, history |-> ds]
Missing == FileOf("missing", <<>>)
Malformed == FileOf("malformed", <<>>)
OkFile(ds) == FileOf("ok", ds)

----------------------------------------------------------------------------
(* The pure steps of HistoryManager's methods *)

\* a slip of the range check: 0 <= index <= len(self.history)
InRangeInclusive(index, h) == 0 <= index /\ index <= Len(h)

\* 0 <= index < len(self.history), index being Python's (0-based)
InRange(index, h) == 0 <= index /\ index < Len(h)

\* a slip of insert(0, entry): self.history.append(entry)
InsertBack(h, e) == h \o <<e>>

\* self.history.insert(0, entry)
InsertFront(h, e) == <<e>> \o h

\* if len(self.history) > self.max_history: self.history = self.history[:self.max_history]
Trim(h) == IF Len(h) > max_history THEN SubSeq(h, 1, max_history) ELSE h

\* a slip of del self.history[index]: the neighbour goes, or the last entry
DeleteNext(h, index) ==
    IF index + 2 <= Len(h)
    THEN SubSeq(h, 1, index + 1) \o SubSeq(h, index + 3, Len(h))
    ELSE SubSeq(h, 1, Len(h) - 1)

\* del self.history[index]
DeleteAt(h, index) == SubSeq(h, 1, index) \o SubSeq(h, index + 2, Len(h))

\* x.timestamp < y.timestamp raises TypeError unless both are str or both are numbers
Comparable(x, y) == x.timestamp.type = y.timestamp.type

\* list.sort meets a TypeError: some element differs in type from one before it
SortRaises(h) == \E i, j \in 1..Len(h) : ~Comparable(h[i], h[j])

\* a slip of the sort: an unstable one, which puts an element before its equals
RECURSIVE InsertDescUnstable(_, _)
InsertDescUnstable(s, e) ==
    IF s = <<>> THEN <<e>>
    ELSE IF Head(s).timestamp.ord > e.timestamp.ord
         THEN <<Head(s)>> \o InsertDescUnstable(Tail(s), e)
         ELSE <<e>> \o s

\* one element put into a list sorted in non-increasing order, after its equals
RECURSIVE InsertDesc(_, _)
InsertDesc(s, e) ==
    IF s = <<>> THEN <<e>>
    ELSE IF Head(s).timestamp.ord >= e.timestamp.ord
         THEN <<Head(s)>> \o InsertDesc(Tail(s), e)
         ELSE <<e>> \o s

\* self.history.sort(key=lambda x: x.timestamp, reverse=True): a stable sort,
\* and reverse=True keeps the original order of equal keys
RECURSIVE SortDesc(_)
SortDesc(h) ==
    IF h = <<>> THEN <<>>
    ELSE InsertDesc(SortDesc(SubSeq(h, 1, Len(h) - 1)), h[Len(h)])

\* import_history, merge branch, when the sort does not raise
Merged(h, imported) == Trim(SortDesc(h \o imported))

\* import_history, replace branch: self.history = imported_entries
Replaced(h, imported) == imported

\* the longest suffix of h whose timestamps have the type of the last one
RECURSIVE UniformSuffix(_)
UniformSuffix(h) ==
    IF Len(h) <= 1 THEN h
    ELSE LET rest == UniformSuffix(Tail(h))
         IN IF Len(rest) = Len(h) - 1 /\ Comparable(Head(h), Head(rest))
            THEN h
            ELSE rest

\* the lists a sort that raised can leave behind.  CPython's list.sort restores
\* every element.  For reverse=True it works from the end of the list, so when
\* the comparison raises the elements up to the first one of the other type are
\* where they were, and the ones behind it are either untouched still (the
\* comparison was made while looking for the first run) or already in order.
Reordered(h) ==
    LET suffix == UniformSuffix(h)
        prefix == SubSeq(h, 1, Len(h) - Len(suffix))
    IN {h, prefix \o SortDesc(suffix)}

\* a slip of save_history: an empty history is not written
save_history_nonempty(h, f, io) ==
    CASE h = <<>> -> f
      [] io = "ok" -> OkFile(ToDicts(h))
      [] io = "openfail" -> f
      [] io = "writefail" -> Malformed

\* save_history: io is what the file system does with the write.
\*   ok         the whole file is rewritten
\*   openfail   open(..., 'w') raises: the file is as it was
\*   writefail  the write raises after open truncated the file
\* The exception is caught and printed in all cases; nothing is returned.
save_history(h, f, io) ==
    CASE io = "ok" -> OkFile(ToDicts(h))
      [] io = "openfail" -> f
      [] io = "writefail" -> Malformed

IoOutcomes == {"ok", "openfail", "writefail"}

\* the file system's answer io to a write, and the count of the failed ones
Write(io) ==
    /\ io # "ok" => ioFailures < MaxIoFailures
    /\ ioFailures' = IF io = "ok" THEN ioFailures ELSE ioFailures + 1

\* load_history on self.history = h: a missing file returns at once, any exception
\* empties the list
load_history(h, f, c) ==
    CASE f.kind = "missing" -> h
      [] f.kind = "ok" -> FromDicts(f.history, c)
      [] OTHER -> <<>>

\* import_history's read of import_file: TRUE when open, json.load, data.get or
\* from_dict raises, all of them before self.history is touched
ReadRaises(f) == f.kind # "ok"

----------------------------------------------------------------------------
(* Inputs *)

\* the (user_input, generated_prompt, template_id) add_entry is called with
AddInputs == {<<"a", "p", "context_aware">>}

\* a complete history object of a file
Dict(user_input, timestamp) ==
    [user_input |-> user_input, generated_prompt |-> "p",
     template_id |-> "context_aware", timestamp |-> timestamp]

\* a file of max_history + 1 entries, not sorted, with equal timestamps among them
Oversize ==
    OkFile([i \in 1..(max_history + 1) |-> Dict("o", TsStr((i % MaxClock) + 1))])

\* the files import_history is given
ImportFiles ==
    << Missing,
       Malformed,
       FileOf("notobject", <<>>),
       FileOf("baditem", <<>>),
       OkFile(<<>>),
       OkFile(<< [user_input |-> "s", timestamp |-> TsStr(2)] >>),
       OkFile(<< Dict("n", TsNum(5)) >>),
       Oversize >>

\* the indices delete_entry is called with
Indices == (0 - 1)..MaxLen

\* the files a HistoryManager can find at its history_file when it is constructed
InitFiles ==
    {Missing, Malformed,
     OkFile(<< [user_input |-> "y", template_id |-> "creative", timestamp |-> TsStr(0)] >>)}

----------------------------------------------------------------------------
(* The record of the most recent call: op is the method, merge the flag    *)
(* import_history was given, result what the call returned, saved what     *)
(* became of its save_history ("none" when the call made none), and        *)
(* trimmed whether the call cut the list down to max_history.              *)

Call(op, merge, result, saved, trimmed) ==
    [op |-> op, merge |-> merge, result |-> result, saved |-> saved,
     trimmed |-> trimmed]

----------------------------------------------------------------------------
(* The values of the variables of the parts of the program a specification *)
(* leaves out: no query was made, no conversation memory and no spell      *)
(* check exist.                                                            *)

\* a Python list, as the value of a variable that can hold other values too
PyList(items) == [type |-> "list", items |-> items]

NoQuery ==
    /\ ret = [op |-> "none"]
    /\ export_file = Missing

NoConversation ==
    /\ conversation_history = PyList(<<>>)
    /\ conversation_file = Missing
    /\ appended = <<>>

NoGenerate ==
    /\ client_type = "none"
    /\ api = "none"
    /\ generate_button = [is_disabled |-> FALSE, is_hovered |-> FALSE, is_pressed |-> FALSE]
    /\ pointer = [inside |-> FALSE, down |-> FALSE]
    /\ scheduled = 0
    /\ frames = <<>>
    /\ done = [op |-> "none"]

NoText ==
    /\ input_text = <<>>
    /\ dialog = "closed"
    /\ errors = <<>>
    /\ corrections = <<>>
    /\ ignored_indices = {}
    /\ original_text = <<>>
    /\ applied = <<>>

----------------------------------------------------------------------------
(* State machine *)

\* HistoryManager.__init__: self.history = [], then load_history()
Init ==
    /\ clock = 1
    /\ file \in InitFiles
    /\ history = load_history(<<>>, file, clock)
    /\ ioFailures = 0
    /\ nAdds = IF history = <<>> THEN 0 ELSE 0 - 1
    /\ last = Call("init", FALSE, "None", "none", FALSE)
    /\ NoQuery /\ NoConversation /\ NoText /\ NoGenerate

\* time passes between two calls
Tick ==
    /\ clock < MaxClock
    /\ clock' = clock + 1
    /\ UNCHANGED <<history, file, ioFailures, nAdds, last>>
    /\ UNCHANGED <<queryVars, conversationVars, textVars, generateVars>>

\* a new HistoryManager on the same history_file
Reload ==
    /\ history' = load_history(<<>>, file, clock)
    /\ nAdds' = IF history' = <<>> THEN 0 ELSE 0 - 1
    /\ last' = Call("load", FALSE, "None", "none", FALSE)
    /\ UNCHANGED <<file, clock, ioFailures>>
    /\ UNCHANGED <<queryVars, conversationVars, textVars, generateVars>>

add_entry(user_input, generated_prompt, template_id, io) ==
    LET entry == PromptHistoryEntry(user_input, generated_prompt, template_id, TsNull, clock)
    IN /\ history' = Trim(InsertFront(history, entry))
       /\ file' = save_history(history', file, io)
       /\ Write(io)
       /\ nAdds' = IF nAdds >= 0 /\ nAdds < MaxAdds THEN nAdds + 1 ELSE 0 - 1
       /\ last' = Call("add", FALSE, "None", io, Len(history) + 1 > max_history)
       /\ UNCHANGED clock
       /\ UNCHANGED <<queryVars, conversationVars, textVars, generateVars>>

clear_history(io) ==
    /\ history' = <<>>
    /\ file' = save_history(history', file, io)
    /\ Write(io)
    /\ nAdds' = 0
    /\ last' = Call("clear", FALSE, "None", io, FALSE)
    /\ UNCHANGED clock
    /\ UNCHANGED <<queryVars, conversationVars, textVars, generateVars>>

delete_entry(index, io) ==
    /\ IF InRange(index, history)
       THEN /\ history' = DeleteAt(history, index)
            /\ file' = save_history(history', file, io)
            /\ Write(io)
            /\ last' = Call("delete", FALSE, "None", io, FALSE)
       ELSE /\ io = "ok"
            /\ UNCHANGED <<history, file, ioFailures>>
            /\ last' = Call("delete", FALSE, "None", "none", FALSE)
    /\ nAdds' = IF history' = <<>> THEN 0 ELSE 0 - 1
    /\ UNCHANGED clock
    /\ UNCHANGED <<queryVars, conversationVars, textVars, generateVars>>

import_history(src, merge, io) ==
    LET f == ImportFiles[src]
        imported == FromDicts(f.history, clock)
    IN /\ merge => Len(history) + Len(f.history) <= MaxLen
       /\ IF ReadRaises(f)
          THEN /\ io = "ok"
               /\ UNCHANGED <<history, file, ioFailures>>
               /\ last' = Call("import", merge, "False", "none", FALSE)
          ELSE IF merge /\ SortRaises(history \o imported)
          THEN /\ io = "ok"
               /\ history' \in Reordered(history \o imported)
               /\ UNCHANGED <<file, ioFailures>>
               /\ last' = Call("import", merge, "False", "none", FALSE)
          ELSE /\ history' = IF merge THEN Merged(history, imported)
                                      ELSE Replaced(history, imported)
               /\ file' = save_history(history', file, io)
               /\ Write(io)
               /\ last' = Call("import", merge, "True", io,
                               merge /\ Len(history) + Len(imported) > max_history)
       /\ nAdds' = IF history' = <<>> THEN 0 ELSE 0 - 1
       /\ UNCHANGED clock
       /\ UNCHANGED <<queryVars, conversationVars, textVars, generateVars>>

Next ==
    \/ Tick
    \/ Reload
    \/ \E a \in AddInputs, io \in IoOutcomes : add_entry(a[1], a[2], a[3], io)
    \/ \E io \in IoOutcomes : clear_history(io)
    \/ \E index \in Indices, io \in IoOutcomes : delete_entry(index, io)
    \/ \E src \in 1..Len(ImportFiles), merge \in BOOLEAN, io \in IoOutcomes :
           import_history(src, merge, io)

Spec == Init /\ [][Next]_vars

----------------------------------------------------------------------------
(* Properties of the history store *)

\* the four fields of entry e, as the history object d of the file holds them
SameFields(d, e) ==
    /\ DOMAIN d = {"user_input", "generated_prompt", "template_id", "timestamp"}
    /\ d.user_input = e.user_input
    /\ d.generated_prompt = e.generated_prompt
    /\ d.template_id = e.template_id
    /\ d.timestamp = e.timestamp

\* the history array of the file equals the store h, entry for entry and in order
FileHolds(f, h) ==
    /\ f.kind = "ok"
    /\ Len(f.history) = Len(h)
    /\ \A i \in 1..Len(h) : SameFields(f.history[i], h[i])

\* C1: starting from an empty HistoryManager, after n add_entry calls and no
\* other mutation the store has min(n, max_history) entries, and the entry the
\* most recent add_entry created is at index 0.
C1_AddsFromEmpty ==
    [][\A a \in AddInputs, io \in IoOutcomes :
          (last'.op = "add" /\ add_entry(a[1], a[2], a[3], io)) =>
              /\ history' # <<>>
              /\ history'[1] = [user_input |-> a[1], generated_prompt |-> a[2],
                                template_id |-> a[3], timestamp |-> Now(clock)]
              /\ nAdds' >= 0 => Len(history') = Min(nAdds', max_history)]_vars

\* more than max_history add_entry calls were made from an empty store, at
\* different times
C1_Witness ==
    /\ last.op = "add"
    /\ last.trimmed
    /\ nAdds = MaxAdds
    /\ Len(history) = max_history
    /\ history[1].timestamp.ord > history[max_history].timestamp.ord

\* C2: in every state reached by add_entry, delete_entry, clear_history,
\* import_history with either merge flag and loads, the in-memory history has at
\* most max_history entries.
C2_LengthBounded == Len(history) <= max_history

\* C3: after add_entry, an in-range delete_entry, clear_history or a successful
\* import_history returns with a successful file write, the history array of the
\* history file equals the in-memory history, entry for entry and in the same
\* order; after clear_history both are empty.
C3_Persisted ==
    (last.op \in {"add", "delete", "clear", "import"} /\ last.saved = "ok") =>
        /\ FileHolds(file, history)
        /\ last.op = "clear" => (history = <<>> /\ file.history = <<>>)

\* a write succeeded after an earlier one had failed, on a full store
C3_Witness ==
    /\ last.op = "add"
    /\ last.saved = "ok"
    /\ ioFailures = 1
    /\ Len(history) = max_history

\* a write of history_file fails during add_entry, clear_history or an in-range
\* delete_entry
FailedWrite ==
    \E io \in IoOutcomes \ {"ok"} :
        \/ \E a \in AddInputs : add_entry(a[1], a[2], a[3], io)
        \/ clear_history(io)
        \/ \E index \in Indices :
               0 <= index /\ index < Len(history) /\ delete_entry(index, io)

\* C4: if writing the history file fails during add_entry, delete_entry or
\* clear_history, the operation did not happen (the in-memory store is what it
\* was before the call) and the caller is told of the failure.
C4_FailedWriteUndone ==
    [][(last'.saved \in IoOutcomes \ {"ok"} /\ FailedWrite) =>
          (history' = history /\ last'.result = "False")]_vars

\* C5: whenever import_history returns False, for either merge flag and every
\* cause of failure, the in-memory store and the history file are exactly what
\* they were before the call.
C5_FailedImportUnchanged ==
    [][\A src \in 1..Len(ImportFiles), merge \in BOOLEAN, io \in IoOutcomes :
          (last'.op = "import" /\ last'.result = "False"
             /\ import_history(src, merge, io)) =>
              (history' = history /\ file' = file)]_vars

\* the place entry k of list c takes when c is sorted by timestamp, greatest
\* first, equal timestamps in the order of c
Rank(c, k) ==
    1 + Cardinality({j \in 1..Len(c) :
            \/ c[j].timestamp.ord > c[k].timestamp.ord
            \/ c[j].timestamp.ord = c[k].timestamp.ord /\ j < k})

\* r is the max_history entries of greatest timestamp of old followed by
\* imported, in non-increasing order of timestamp, the entries of old before
\* the entries of imported that have the same timestamp
IsMergeOf(r, old, imported) ==
    LET c == old \o imported
    IN /\ Len(r) = Min(Len(c), max_history)
       /\ \A i, j \in 1..Len(r) : i < j => r[i].timestamp.ord >= r[j].timestamp.ord
       /\ \A k \in 1..Len(c) : Rank(c, k) <= max_history => r[Rank(c, k)] = c[k]

\* C6: a successful import_history(path, merge=True) leaves a store sorted by
\* timestamp in non-increasing order, of at most max_history entries, holding
\* exactly the max_history entries of greatest timestamp of the multiset union
\* of the pre-import store and the imported entries (all of them when they are
\* at most max_history, none de-duplicated), pre-existing entries before
\* imported ones of the same timestamp.
C6_MergeImport ==
    [][\A src \in 1..Len(ImportFiles), io \in IoOutcomes :
          (last'.op = "import" /\ last'.merge /\ last'.result = "True"
             /\ import_history(src, TRUE, io)) =>
              IsMergeOf(history', history,
                        FromDicts(ImportFiles[src].history, clock))]_vars

\* a merge of more than max_history entries has cut the list, and kept an
\* imported entry behind an entry of the store of the same timestamp
C6_Witness ==
    /\ last.op = "import" /\ last.merge /\ last.result = "True"
    /\ last.trimmed
    /\ Len(history) = max_history
    /\ \E i, j \in 1..Len(history) :
           /\ i < j
           /\ history[i].user_input = "a"
           /\ history[j].user_input = "s"
           /\ history[i].timestamp = history[j].timestamp

\* C7: a successful import_history(path, merge=False) replaces the store with
\* the entries of the imported file, in file order and trimmed to at most
\* max_history entries, whatever the store held before.
C7_ReplaceImport ==
    [][\A src \in 1..Len(ImportFiles), io \in IoOutcomes :
          (last'.op = "import" /\ ~last'.merge /\ last'.result = "True"
             /\ import_history(src, FALSE, io)) =>
              LET imported == FromDicts(ImportFiles[src].history, clock)
              IN /\ Len(history') = Min(Len(imported), max_history)
                 /\ \A i \in 1..Len(history') : history'[i] = imported[i]]_vars

\* C8: round trip: for any store reachable by add, delete, clear and import,
\* save_history followed by load_history (a new HistoryManager on the same file)
\* reproduces an equal sequence of entries: same length, same order, and the same
\* user_input, generated_prompt, template_id and timestamp in every position.
C8_RoundTrip ==
    [][(last.saved = "ok" /\ last'.op = "load" /\ Reload) =>
          /\ Len(history') = Len(history)
          /\ \A i \in 1..Len(history) :
                 /\ history'[i].user_input = history[i].user_input
                 /\ history'[i].generated_prompt = history[i].generated_prompt
                 /\ history'[i].template_id = history[i].template_id
                 /\ history'[i].timestamp = history[i].timestamp]_vars

\* a store of several entries was loaded from the file at a later time than
\* the timestamp of one of them
C8_Witness ==
    /\ last.op = "load"
    /\ file.kind = "ok"
    /\ Len(history) >= 2
    /\ \E i \in 1..Len(history) :
           history[i].timestamp.type = "str" /\ history[i].timestamp.ord < clock

\* C9: delete_entry(index) for an index outside [0, len) (negative, equal to len
\* or larger) is a no-op: the in-memory store is unchanged and the history file
\* is not rewritten.
C9_DeleteOutOfRange ==
    [][\A index \in Indices, io \in IoOutcomes :
          (last'.op = "delete" /\ (index < 0 \/ index >= Len(history))
             /\ delete_entry(index, io)) =>
              (history' = history /\ file' = file)]_vars

\* delete_entry was called with an index out of range on a store of several
\* entries that the file does not hold, so that a write would show
C9_Witness ==
    /\ last.op = "delete"
    /\ last.saved = "none"
    /\ Len(history) >= 2
    /\ ~FileHolds(file, history)

\* the list h without the entry at Python index index
Without(h, index) ==
    [i \in 1..(Len(h) - 1) |-> IF i <= index THEN h[i] ELSE h[i + 1]]

----------------------------------------------------------------------------
(* The queries of HistoryManager: get_history, get_entry, search_history   *)
(* and export_history.  Here the texts of an entry are sequences of        *)
(* characters, and the value a call returned is a record: kind is "None",  *)
(* "entry", "list" or "bool", value the entry, the list or the boolean,    *)
(* alias whether the list returned is the object self.history itself, op   *)
(* the method and arg the argument it was called with.                     *)

Returned(op, arg, kind, value, alias) ==
    [op |-> op, arg |-> arg, kind |-> kind, value |-> value, alias |-> alias]

\* str.lower() of one character
LowerChar(c) ==
    CASE c = "A" -> "a"
      [] c = "B" -> "b"
      [] OTHER -> c

\* a slip of lower(): the text is taken as it is
keep_case(s) == s

\* str.lower()
lower(s) == [i \in 1..Len(s) |-> LowerChar(s[i])]

\* sub in s, for two strings
In(sub, s) ==
    \E k \in 0..(Len(s) - Len(sub)) : SubSeq(s, k + 1, k + Len(sub)) = sub

\* the condition of the comprehension of search_history
Matches(entry, query) ==
    LET query_lower == lower(query)
    IN \/ In(query_lower, lower(entry.user_input))
       \/ In(query_lower, lower(entry.generated_prompt))

\* the list comprehension of search_history: a new list
search_history(h, query) ==
    Returned("search_history", query, "list",
             SelectSeq(h, LAMBDA entry : Matches(entry, query)), FALSE)

\* the argument limit of get_history: None, or an integer
NoLimit == [none |-> TRUE, n |-> 0]
Limit(n) == [none |-> FALSE, n |-> n]

\* h[:n], the slice of a list: a negative n counts from the end
SliceTo(h, n) ==
    IF n >= 0
    THEN SubSeq(h, 1, Min(n, Len(h)))
    ELSE SubSeq(h, 1, Len(h) + n)

\* get_history: "if limit:" is false for None and for 0, and then self.history
\* itself is returned, not a copy
get_history(h, limit) ==
    IF ~limit.none /\ limit.n # 0
    THEN Returned("get_history", limit, "list", SliceTo(h, limit.n), FALSE)
    ELSE Returned("get_history", limit, "list", h, TRUE)

\* a slip of get_entry: no lower bound, so that a negative index counts from
\* the end of the list as Python's indexing does
get_entry_wrapping(h, index) ==
    IF index < Len(h) /\ 0 - index <= Len(h)
    THEN Returned("get_entry", index, "entry",
                  h[IF index >= 0 THEN index + 1 ELSE Len(h) + index + 1], FALSE)
    ELSE Returned("get_entry", index, "None", <<>>, FALSE)

get_entry(h, index) ==
    IF InRange(index, h)
    THEN Returned("get_entry", index, "entry", h[index + 1], FALSE)
    ELSE Returned("get_entry", index, "None", <<>>, FALSE)

\* the object export_history dumps
ExportData(h, c) ==
    [kind |-> "ok", history |-> ToDicts(h), exported_at |-> Now(c)]

\* a slip of export_history: at most max_history entries are written
ExportedTrimmed(h, f, io, c) ==
    CASE io = "ok" -> ExportData(Trim(h), c)
      [] io = "openfail" -> f
      [] io = "writefail" -> Malformed

\* the file export_history leaves at export_file, f being its content before
Exported(h, f, io, c) ==
    CASE io = "ok" -> ExportData(h, c)
      [] io = "openfail" -> f
      [] io = "writefail" -> Malformed

\* the paths export_history and import_history are given: the path of
\* history_file itself, or another one
Paths == {"history", "export"}

\* the content of the file at a path
FileAt(path) == IF path = "history" THEN file ELSE export_file

\* the history objects of the files of the queries
QueryDict(user_input, generated_prompt) ==
    [user_input |-> user_input, generated_prompt |-> generated_prompt,
     template_id |-> "context_aware", timestamp |-> TsStr(1)]

QueryDicts ==
    << QueryDict(<<"A", "b">>, <<>>),
       QueryDict(<<>>, <<"b", "A">>),
       QueryDict(<<"a">>, <<"a">>) >>

\* a file of max_history + 1 entries
QueryOversize ==
    OkFile([i \in 1..(max_history + 1) |-> QueryDicts[(i % Len(QueryDicts)) + 1]])

\* the files a HistoryManager can find at its history_file
QueryFiles == {Missing, OkFile(<< QueryDicts[1] >>), QueryOversize}

\* the queries search_history is called with
Letters == {"a", "A", "b", "B"}
Queries == {<<>>} \cup {<<c>> : c \in Letters} \cup {<<c, d>> : c, d \in Letters}

\* the limits get_history is called with
Limits == {NoLimit} \cup {Limit(n) : n \in (0 - 1)..(MaxLen + 1)}

\* HistoryManager.__init__
QueryInit ==
    /\ clock = 1
    /\ file \in QueryFiles
    /\ history = load_history(<<>>, file, clock)
    /\ ioFailures = 0
    /\ nAdds = 0 - 1
    /\ last = Call("init", FALSE, "None", "none", FALSE)
    /\ NoQuery /\ NoConversation /\ NoText /\ NoGenerate

\* a caller calls get_entry(index) and keeps what it returns
call_get_entry(index) ==
    /\ ret' = get_entry(history, index)
    /\ UNCHANGED <<history, file, clock, ioFailures, nAdds, last, export_file>>
    /\ UNCHANGED <<conversationVars, textVars, generateVars>>

call_get_history(limit) ==
    /\ ret' = get_history(history, limit)
    /\ UNCHANGED <<history, file, clock, ioFailures, nAdds, last, export_file>>
    /\ UNCHANGED <<conversationVars, textVars, generateVars>>

call_search_history(query) ==
    /\ ret' = search_history(history, query)
    /\ UNCHANGED <<history, file, clock, ioFailures, nAdds, last, export_file>>
    /\ UNCHANGED <<conversationVars, textVars, generateVars>>

\* the caller removes the last element of the list get_history returned
\* (returned.pop()): when the list is self.history itself, the store loses it
pop_returned ==
    /\ ret.op = "get_history"
    /\ ret.value # <<>>
    /\ ret' = [ret EXCEPT !.value = SubSeq(ret.value, 1, Len(ret.value) - 1)]
    /\ history' = IF ret.alias THEN ret'.value ELSE history
    /\ UNCHANGED <<file, clock, ioFailures, nAdds, last, export_file>>
    /\ UNCHANGED <<conversationVars, textVars, generateVars>>

export_history(path, io) ==
    /\ Write(io)
    /\ IF path = "history"
       THEN /\ file' = Exported(history, file, io, clock)
            /\ UNCHANGED export_file
       ELSE /\ export_file' = Exported(history, export_file, io, clock)
            /\ UNCHANGED file
    /\ ret' = Returned("export_history", path, "bool", io = "ok", FALSE)
    /\ UNCHANGED <<history, clock, nAdds, last>>
    /\ UNCHANGED <<conversationVars, textVars, generateVars>>

\* import_history(path, merge=False)
import_replacing(path, io) ==
    LET f == FileAt(path)
        imported == FromDicts(f.history, clock)
    IN /\ IF ReadRaises(f)
          THEN /\ io = "ok"
               /\ UNCHANGED <<history, file, ioFailures>>
               /\ ret' = Returned("import_history", path, "bool", FALSE, FALSE)
          ELSE /\ history' = Replaced(history, imported)
               /\ file' = save_history(history', file, io)
               /\ Write(io)
               /\ ret' = Returned("import_history", path, "bool", TRUE, FALSE)
       /\ UNCHANGED <<clock, nAdds, last, export_file>>
       /\ UNCHANGED <<conversationVars, textVars, generateVars>>

QueryNext ==
    \/ \E index \in Indices : call_get_entry(index)
    \/ \E limit \in Limits : call_get_history(limit)
    \/ \E query \in Queries : call_search_history(query)
    \/ pop_returned
    \/ \E path \in Paths, io \in IoOutcomes : export_history(path, io)
    \/ \E path \in Paths, io \in IoOutcomes : import_replacing(path, io)

SpecQuery == QueryInit /\ [][QueryNext]_vars

----------------------------------------------------------------------------
(* Properties of the queries *)

\* C11: get_entry(index) returns the entry stored at that position when
\* 0 <= index < len and None for every other integer index, the negative ones
\* included; it never raises and never changes the store.
C11_GetEntry ==
    [][\A index \in Indices :
          (ret'.op = "get_entry" /\ call_get_entry(index)) =>
              /\ (0 <= index /\ index < Len(history)) =>
                     (ret'.kind = "entry" /\ ret'.value = history[index + 1])
              /\ (index < 0 \/ index >= Len(history)) => ret'.kind = "None"
              /\ history' = history
              /\ file' = file]_vars

\* get_entry was called with a negative index on a store of several entries
C11_Witness ==
    /\ ret.op = "get_entry"
    /\ ret.arg < 0
    /\ ret.kind = "None"
    /\ Len(history) >= 2

\* C12: get_history(limit) returns exactly the first min(limit, len) entries
\* of the store for every limit >= 0, 0 included, and all of them when limit is
\* omitted; the call does not change the store, and changing the returned
\* sequence does not change the store.
C12_GetHistory ==
    [][/\ \A limit \in Limits :
              (ret'.op = "get_history" /\ (limit.none \/ limit.n >= 0)
                 /\ call_get_history(limit)) =>
                  /\ ret'.value = IF limit.none THEN history
                                  ELSE SubSeq(history, 1, Min(limit.n, Len(history)))
                  /\ history' = history
       /\ pop_returned => history' = history]_vars

\* characters c and d are the same letter, whatever their case
SameLetter(c, d) == c = d \/ {c, d} \in {{"a", "A"}, {"b", "B"}}

\* q occurs in s somewhere, case ignored
OccursIn(q, s) ==
    \E k \in 0..(Len(s) - Len(q)) : \A j \in 1..Len(q) : SameLetter(q[j], s[k + j])

\* the positions of the entries of h that q occurs in
Hits(h, q) ==
    {i \in 1..Len(h) : OccursIn(q, h[i].user_input) \/ OccursIn(q, h[i].generated_prompt)}

\* r is the entries of h at the positions idx, in the order of h
IsSelection(r, h, idx) ==
    /\ Len(r) = Cardinality(idx)
    /\ \A i \in idx : r[Cardinality({j \in idx : j <= i})] = h[i]

\* C13: search_history(q) returns exactly the entries of the store whose
\* user_input or generated_prompt holds q, case ignored, in the order of the
\* store, and changes neither the store nor the history file.
C13_Search ==
    [][(ret'.op = "search_history" /\ call_search_history(ret'.arg)) =>
          /\ IsSelection(ret'.value, history, Hits(history, ret'.arg))
          /\ history' = history
          /\ file' = file]_vars

\* a query in mixed case has found some of the entries of the store, not all,
\* in a text of the other case
C13_Witness ==
    /\ ret.op = "search_history"
    /\ ret.arg = <<"B", "a">>
    /\ ret.value # <<>>
    /\ Len(ret.value) < Len(history)

\* what C14 says of one call of export_history, the history file apart, and of
\* an import_history(path, merge=False) that follows a successful export
ExportContract ==
    /\ \A path \in Paths, io \in IoOutcomes :
           (ret'.op = "export_history" /\ export_history(path, io)) =>
               /\ ret'.value = (io = "ok")
               /\ history' = history
               /\ io = "ok" =>
                      FileHolds(IF path = "history" THEN file' ELSE export_file',
                                history)
    /\ \A io \in IoOutcomes :
           (ret.op = "export_history" /\ ret.value
              /\ ret'.op = "import_history" /\ import_replacing(ret.arg, io)) =>
               (ret'.value /\ history' = history)

\* C14, as stated: export_history(path) returns True after writing the full
\* store and False, without raising, when the write fails; in both cases the
\* in-memory store and the history file are unchanged.  An export followed by
\* import_history(path, merge=False) leaves a store equal to the exported one.
C14_ExportLeavesHistoryFile ==
    [][/\ ExportContract
       /\ \A path \in Paths, io \in IoOutcomes :
              (ret'.op = "export_history" /\ export_history(path, io)) =>
                  file' = file]_vars

\* C14, amended: the same, the history file being unchanged when path is not
\* the path of the history file itself.
C14_Export ==
    [][/\ ExportContract
       /\ \A path \in Paths \ {"history"}, io \in IoOutcomes :
              (ret'.op = "export_history" /\ export_history(path, io)) =>
                  file' = file]_vars

\* a store of more than max_history entries was exported and then imported
\* from the exported file
C14_Witness ==
    /\ ret.op = "import_history"
    /\ ret.arg = "export"
    /\ ret.value
    /\ Len(history) > max_history
    /\ FileHolds(export_file, history)

----------------------------------------------------------------------------
(* The conversation memory of AIPromptGenerator.  conversation_history is  *)
(* what load_conversation found under "messages": a list of messages       *)
(* [role, content], or a JSON value that is no list.  The kind of the      *)
(* conversation file is what reading it meets:                             *)
(*   missing     os.path.exists is false                                   *)
(*   unreadable  the file exists and open raises                           *)
(*   malformed   not JSON, e.g. a truncated write (json.load raises)       *)
(*   notobject   JSON whose top level is no object (data.get raises)       *)
(*   nokey       an object without "messages"                              *)
(*   ok          an object with "messages"                                 *)

\* the turns kept, as modelled (the program keeps 50)
MaxTurnsScaled == 1

max_conversation_turns == MaxTurnsScaled

\* add_to_conversation calls followed from an empty log, past the cap
MaxAppends == 2 * max_conversation_turns + 2

\* JSON values that are no list: null, a string that is not empty, and the
\* empty object {}
PyNone == [type |-> "null", items |-> <<>>]
PyStr == [type |-> "str", items |-> <<>>]
PyEmptyObject == [type |-> "dict", items |-> <<>>]

Message(role, content) == [role |-> role, content |-> content]

ConversationFile(kind, messages) == [kind |-> kind, messages |-> messages]

\* load_conversation: the value of self.conversation_history it leaves
load_conversation(f) ==
    CASE f.kind = "missing" -> PyList(<<>>)
      [] f.kind = "ok" -> f.messages
      [] f.kind = "nokey" -> PyList(<<>>)
      [] OTHER -> PyList(<<>>)

\* a slip of the trim: the oldest messages are kept
TrimHead(items) ==
    IF Len(items) > max_conversation_turns * 2
    THEN SubSeq(items, 1, max_conversation_turns * 2)
    ELSE items

\* save_conversation: self.conversation_history[-(self.max_conversation_turns * 2):]
\* when the list is longer than that
TrimTail(items) ==
    IF Len(items) > max_conversation_turns * 2
    THEN SubSeq(items, Len(items) - max_conversation_turns * 2 + 1, Len(items))
    ELSE items

\* a slip of save_conversation: the list is written as it was before the trim
save_untrimmed(items, f, io) ==
    CASE io = "ok" -> ConversationFile("ok", PyList(items))
      [] io = "openfail" -> f
      [] io = "writefail" -> ConversationFile("malformed", PyList(<<>>))

\* save_conversation: the file it leaves, items being the list before the trim
\* and io what the file system does with the write (as for save_history); the
\* exception is caught and printed
save_conversation(items, f, io) ==
    CASE io = "ok" -> ConversationFile("ok", PyList(TrimTail(items)))
      [] io = "openfail" -> f
      [] io = "writefail" -> ConversationFile("malformed", PyList(<<>>))

\* a slip of the count: every message is counted
CountAll(items) == Len(items)

\* len([m for m in self.conversation_history if m['role'] == 'user'])
CountUser(items) == Cardinality({i \in 1..Len(items) : items[i].role = "user"})

\* get_conversation_summary: None, {} and [] are falsy and give the sentinel; a
\* string that is not empty is iterated, and m['role'] raises TypeError
Summary(h) ==
    CASE h.type \in {"null", "dict"} ->
             Returned("get_conversation_summary", <<>>, "sentinel", 0, FALSE)
      [] h.type = "str" -> Returned("get_conversation_summary", <<>>, "raises", 0, FALSE)
      [] h.type = "list" /\ h.items = <<>> ->
             Returned("get_conversation_summary", <<>>, "sentinel", 0, FALSE)
      [] OTHER ->
             Returned("get_conversation_summary", <<>>, "turns", CountUser(h.items), FALSE)

\* the messages add_to_conversation is given
Roles == {"user", "assistant"}
Contents == {"m"}

\* the conversation files the program can find when it starts: none, files it
\* wrote itself (at most max_conversation_turns * 2 messages), and files that
\* are unreadable or do not have the shape it writes
ConversationFiles ==
    { ConversationFile("missing", PyList(<<>>)),
      ConversationFile("unreadable", PyList(<<>>)),
      ConversationFile("malformed", PyList(<<>>)),
      ConversationFile("notobject", PyList(<<>>)),
      ConversationFile("nokey", PyList(<<>>)),
      ConversationFile("ok", PyNone),
      ConversationFile("ok", PyStr),
      ConversationFile("ok", PyList(<<>>)),
      ConversationFile("ok", PyList(<< Message("assistant", "m"), Message("user", "m") >>)) }

\* the history files of the same start
StartFiles == InitFiles \cup {FileOf("notobject", <<>>)}

\* the messages followed since the log was empty
Appended(valid, msgs) == [valid |-> valid, msgs |-> msgs]

\* AIPromptGenerator.__init__: HistoryManager(), then init_conversation_memory
ConversationInit ==
    /\ clock = 1
    /\ file \in StartFiles
    /\ history = load_history(<<>>, file, clock)
    /\ ioFailures = 0
    /\ nAdds = 0 - 1
    /\ last = Call("init", FALSE, "None", "none", FALSE)
    /\ conversation_file \in ConversationFiles
    /\ conversation_history = load_conversation(conversation_file)
    /\ appended = Appended(conversation_history = PyList(<<>>), <<>>)
    /\ NoQuery /\ NoText /\ NoGenerate

\* the program is started again on the same files
Restart ==
    /\ history' = load_history(<<>>, file, clock)
    /\ conversation_history' = load_conversation(conversation_file)
    /\ appended' = Appended(conversation_history' = PyList(<<>>), <<>>)
    /\ last' = Call("load", FALSE, "None", "none", FALSE)
    /\ ret' = [op |-> "none"]
    /\ UNCHANGED <<file, clock, ioFailures, nAdds, export_file, conversation_file>>
    /\ UNCHANGED <<textVars, generateVars>>

\* add_to_conversation: list.append raises AttributeError, out of the method,
\* when conversation_history is no list
add_to_conversation(role, content, io) ==
    /\ IF conversation_history.type = "list"
       THEN LET items == Append(conversation_history.items, Message(role, content))
            IN /\ conversation_history' = PyList(TrimTail(items))
               /\ conversation_file' = save_conversation(items, conversation_file, io)
               /\ Write(io)
               /\ appended' =
                      IF appended.valid /\ Len(appended.msgs) < MaxAppends
                      THEN Appended(TRUE, Append(appended.msgs, Message(role, content)))
                      ELSE Appended(FALSE, <<>>)
               /\ last' = Call("append", FALSE, "None", io,
                               Len(items) > max_conversation_turns * 2)
       ELSE /\ io = "ok"
            /\ UNCHANGED <<conversation_history, conversation_file, ioFailures, appended>>
            /\ last' = Call("append", FALSE, "raises", "none", FALSE)
    /\ UNCHANGED <<history, file, clock, nAdds, queryVars, textVars, generateVars>>

clear_conversation(io) ==
    /\ conversation_history' = PyList(<<>>)
    /\ conversation_file' = save_conversation(<<>>, conversation_file, io)
    /\ Write(io)
    /\ appended' = Appended(TRUE, <<>>)
    /\ last' = Call("clear", FALSE, "None", io, FALSE)
    /\ UNCHANGED <<history, file, clock, nAdds, queryVars, textVars, generateVars>>

get_conversation_summary ==
    /\ ret' = Summary(conversation_history)
    /\ UNCHANGED <<history, file, clock, ioFailures, nAdds, last, export_file>>
    /\ UNCHANGED <<conversationVars, textVars, generateVars>>

ConversationNext ==
    \/ Restart
    \/ \E role \in Roles, content \in Contents, io \in IoOutcomes :
           add_to_conversation(role, content, io)
    \/ \E io \in IoOutcomes : clear_conversation(io)
    \/ get_conversation_summary

SpecConversation == ConversationInit /\ [][ConversationNext]_vars

----------------------------------------------------------------------------
(* Properties of the conversation memory *)

\* the messages the conversation file holds, none when it does not hold a list
DiskMessages(f) ==
    IF f.kind = "ok" /\ f.messages.type = "list" THEN f.messages.items ELSE <<>>

\* the conversation file has the shape the program writes
WellFormed(f) == f.kind = "ok" /\ f.messages.type = "list"

\* C15: loading either log never fails the process: a missing file yields an
\* empty log, and an unreadable or malformed file yields an empty log too,
\* without raising, for HistoryManager.load_history and for load_conversation.
C15_LoadYieldsEmpty ==
    last.op \in {"init", "load"} =>
        /\ file.kind # "ok" => history = <<>>
        /\ ~WellFormed(conversation_file) => conversation_history = PyList(<<>>)

\* the last n elements of a sequence of at least n
LastN(msgs, n) == [i \in 1..n |-> msgs[Len(msgs) - n + i]]

\* at least max_conversation_turns * 2 messages were appended to an empty log
\* and nothing else was done to it
AppendedPastCap ==
    /\ last.op = "append"
    /\ appended.valid
    /\ Len(appended.msgs) >= 2 * max_conversation_turns

C17_ConversationPersisted ==
    /\ [](Len(DiskMessages(conversation_file)) <= 2 * max_conversation_turns)
    /\ [][/\ \A role \in Roles, content \in Contents :
                 (last'.op = "append" /\ last'.saved = "ok"
                    /\ add_to_conversation(role, content, "ok")) =>
                     /\ conversation_history'.type = "list"
                     /\ WellFormed(conversation_file')
                     /\ DiskMessages(conversation_file') = conversation_history'.items
                     /\ conversation_history'.items # <<>>
                     /\ conversation_history'.items[Len(conversation_history'.items)]
                            = Message(role, content)
          /\ (last'.op = "clear" /\ clear_conversation("ok")) =>
                 /\ conversation_history' = PyList(<<>>)
                 /\ WellFormed(conversation_file')
                 /\ DiskMessages(conversation_file') = <<>>]_vars

\* a message was appended to a full log and written, after a failed write had
\* left the file behind the log
C17_Witness ==
    /\ last.op = "append"
    /\ last.saved = "ok"
    /\ last.trimmed
    /\ ioFailures > 0
    /\ Len(DiskMessages(conversation_file)) = 2 * max_conversation_turns

----------------------------------------------------------------------------
(* The corrector of the input text: AIPromptGenerator.apply_corrections.   *)
(* A text is a sequence of characters, a correction a record [start, end,  *)
(* replacement] whose span is text[start:end], positions counted from 0.   *)

\* the longest text the corrector is given
MaxTextLen == 3

Correction(start, end, replacement) ==
    [start |-> start, end |-> end, replacement |-> replacement]

\* the white space of the texts: str.strip() removes it at both ends
IsSpace(c) == c \in {" ", "\n", "\r"}

\* str.strip()
RECURSIVE StripLeft(_)
StripLeft(text) ==
    IF text # <<>> /\ IsSpace(Head(text)) THEN StripLeft(Tail(text)) ELSE text

RECURSIVE StripRight(_)
StripRight(text) ==
    IF text # <<>> /\ IsSpace(text[Len(text)])
    THEN StripRight(SubSeq(text, 1, Len(text) - 1))
    ELSE text

Strip(text) == StripRight(StripLeft(text))

\* text[n:], for n >= 0: empty when n is past the end
SliceFrom(text, n) == SubSeq(text, Min(n, Len(text)) + 1, Len(text))

\* one correction put into a list ordered by start, greatest first, after the
\* ones of the same start
RECURSIVE InsertByStart(_, _)
InsertByStart(cs, c) ==
    IF cs = <<>> THEN <<c>>
    ELSE IF Head(cs).start >= c.start
         THEN <<Head(cs)>> \o InsertByStart(Tail(cs), c)
         ELSE <<c>> \o cs

\* a slip of apply_corrections: the corrections are taken in the order listed
Unsorted(cs) == cs

\* sorted(corrections, key=lambda x: x['start'], reverse=True): stable
RECURSIVE Sorted(_)
Sorted(cs) ==
    IF cs = <<>> THEN <<>>
    ELSE InsertByStart(Sorted(SubSeq(cs, 1, Len(cs) - 1)), cs[Len(cs)])

\* input_content[:start] + replacement + input_content[end:]
Splice(text, c) == SliceTo(text, c.start) \o c.replacement \o SliceFrom(text, c.end)

\* the loop of apply_corrections over the sorted corrections
RECURSIVE ApplyEach(_, _)
ApplyEach(text, cs) ==
    IF cs = <<>> THEN text ELSE ApplyEach(Splice(text, Head(cs)), Tail(cs))

\* apply_corrections: the text it puts into the widget, text being the content
\* of the widget before
Corrected(text, cs) == ApplyEach(Strip(text), Sorted(cs))

\* the characters of the texts and the replacements of the corrections
Chars == {"a", "b", " "}
Replacements == {<<>>, <<"x", "x">>}

\* the texts of at most n characters
Texts(n) == UNION {[1..k -> Chars] : k \in 0..n}

\* the corrections whose span lies inside a text, the empty spans included
CorrectionsOn(text) ==
    {c \in [start : 0..Len(text), end : 0..Len(text), replacement : Replacements] :
        c.start <= c.end}

\* the lists of corrections apply_corrections is given for a text
CorrectionLists(text) ==
    {<<>>} \cup {<<c>> : c \in CorrectionsOn(text)}
           \cup {<<c, d>> : c, d \in CorrectionsOn(text)}

\* the input widget holds a text; no dialog is shown
CorrectorInit ==
    /\ clock = 1
    /\ file = Missing
    /\ history = <<>>
    /\ ioFailures = 0
    /\ nAdds = 0 - 1
    /\ last = Call("init", FALSE, "None", "none", FALSE)
    /\ NoQuery /\ NoConversation /\ NoGenerate
    /\ input_text \in Texts(MaxTextLen)
    /\ dialog = "closed"
    /\ errors = <<>>
    /\ corrections = <<>>
    /\ ignored_indices = {}
    /\ original_text = <<>>
    /\ applied = <<>>

\* apply_corrections(cs), called once on the text of the widget
apply_corrections(cs) ==
    /\ applied = <<>>
    /\ input_text' = Corrected(input_text, cs)
    /\ applied' = cs
    /\ original_text' = Strip(input_text)
    /\ UNCHANGED <<dialog, errors, corrections, ignored_indices>>
    /\ UNCHANGED <<history, file, clock, ioFailures, nAdds, last>>
    /\ UNCHANGED <<queryVars, conversationVars, generateVars>>

CorrectorNext ==
    \E cs \in CorrectionLists(Strip(input_text)) : apply_corrections(cs)

SpecCorrector == CorrectorInit /\ [][CorrectorNext]_vars

----------------------------------------------------------------------------
(* Properties of the corrector *)

\* the spans of the corrections cs lie inside the text and no two overlap
SpansDisjoint(text, cs) ==
    /\ \A i \in 1..Len(cs) :
           0 <= cs[i].start /\ cs[i].start <= cs[i].end /\ cs[i].end <= Len(text)
    /\ \A i, j \in 1..Len(cs) :
           i # j => (cs[i].end <= cs[j].start \/ cs[j].end <= cs[i].start)

\* every span holds a character
SpansNonEmpty(cs) == \A i \in 1..Len(cs) : cs[i].start < cs[i].end

\* the replacements of the empty spans of cs at position p, in the order listed
RECURSIVE InsertedAt(_, _)
InsertedAt(cs, p) ==
    IF cs = <<>> THEN <<>>
    ELSE (IF Head(cs).start = p /\ Head(cs).end = p THEN Head(cs).replacement ELSE <<>>)
             \o InsertedAt(Tail(cs), p)

\* the text from position p on with every span replaced by its replacement and
\* every other character kept: an empty span at p is an insertion before the
\* character at p
RECURSIVE Rewritten(_, _, _)
Rewritten(text, cs, p) ==
    LET replaced == {i \in 1..Len(cs) : cs[i].start = p /\ cs[i].end > p}
    IN IF replaced # {}
       THEN LET c == cs[CHOOSE i \in replaced : TRUE]
            IN InsertedAt(cs, p) \o c.replacement \o Rewritten(text, cs, c.end)
       ELSE IF p >= Len(text) THEN InsertedAt(cs, p)
       ELSE InsertedAt(cs, p) \o <<text[p + 1]>> \o Rewritten(text, cs, p + 1)

\* the list cs in the opposite order
Reversed(cs) == [i \in 1..Len(cs) |-> cs[Len(cs) + 1 - i]]

\* what C19 says of the call apply_corrections(cs) when the spans of cs are
\* disjoint and inside the text
CorrectorContract(cs) ==
    (apply_corrections(cs) /\ SpansDisjoint(Strip(input_text), cs)) =>
        /\ input_text' = Rewritten(Strip(input_text), cs, 0)
        /\ input_text' = Corrected(input_text, Reversed(cs))

----------------------------------------------------------------------------
(* The spell check of the input text: spell_check_prompt finds the errors  *)
(* of the text and shows them in a SpellCheckDialog, whose buttons hand    *)
(* corrections to apply_corrections.  The dialog is modal: the text is not *)
(* edited while it is shown.                                               *)

\* the longest text spell_check_prompt is called on
MaxCheckedLen == 8

\* suggestions[:5]
MaxSuggestions == 5

\* [a-zA-Z]
IsLetter(c) == c \in {"a", "b", "c", "A", "B"}

\* \w: a letter, a digit or the underscore
IsWordChar(c) == IsLetter(c) \/ c \in {"1", "_"}

\* the matches of \b[a-zA-Z]+\b: the maximal runs of letters that have no
\* digit and no underscore next to them, as pairs <<start, end>>
WordSpans(text) ==
    {w \in (0..Len(text)) \X (0..Len(text)) :
        /\ w[1] < w[2]
        /\ \A i \in (w[1] + 1)..w[2] : IsLetter(text[i])
        /\ w[1] = 0 \/ ~IsWordChar(text[w[1]])
        /\ w[2] = Len(text) \/ ~IsWordChar(text[w[2] + 1])}

\* the words the spell checker knows
Dictionary ==
    { <<"a", "b", "a">>, <<"b", "a", "b">>,
      <<"a", "b", "b", "a">>, <<"a", "b", "a", "b">>, <<"a", "a", "b", "b">>,
      <<"a", "b", "b", "b">>, <<"b", "a", "b", "b">>, <<"b", "a", "b", "a">> }

\* s without its i-th character
Dropped(s, i) == SubSeq(s, 1, i - 1) \o SubSeq(s, i + 1, Len(s))

\* v is one edit away from u: a letter replaced, two neighbours swapped, a
\* letter inserted or a letter deleted
OneEdit(u, v) ==
    \/ /\ Len(u) = Len(v)
       /\ Cardinality({i \in 1..Len(u) : u[i] # v[i]}) = 1
    \/ /\ Len(u) = Len(v)
       /\ \E i \in 1..(Len(u) - 1) :
              /\ u[i] # u[i + 1]
              /\ v = [u EXCEPT ![i] = u[i + 1], ![i + 1] = u[i]]
    \/ /\ Len(v) = Len(u) + 1
       /\ \E i \in 1..Len(v) : Dropped(v, i) = u
    \/ /\ Len(u) = Len(v) + 1
       /\ \E i \in 1..Len(u) : Dropped(u, i) = v

\* list(a set), in the order the set happens to iterate
RECURSIVE ListOf(_)
ListOf(S) ==
    IF S = {} THEN <<>>
    ELSE LET x == CHOOSE y \in S : TRUE
         IN <<x>> \o ListOf(S \ {x})

\* self.spell_checker.candidates(word) as a list: the known words one edit
\* away from the word in lower case; the empty list stands for None
Candidates(word) == ListOf({d \in Dictionary : OneEdit(lower(word), d)})

\* s[:n]
Take(s, n) == SubSeq(s, 1, Min(n, Len(s)))

\* a slip of the positions: the end is taken one past the match
SpellingErrorLong(text, w) ==
    [word |-> SubSeq(text, w[1] + 1, w[2]),
     start |-> w[1],
     end |-> w[2] + 1,
     suggestions |-> Take(Candidates(SubSeq(text, w[1] + 1, w[2])), MaxSuggestions)]

\* the error find_spelling_errors records for the word at span w
SpellingError(text, w) ==
    [word |-> SubSeq(text, w[1] + 1, w[2]),
     start |-> w[1],
     end |-> w[2],
     suggestions |-> Take(Candidates(SubSeq(text, w[1] + 1, w[2])), MaxSuggestions)]

\* the spans of s that begin at or after position p, in ascending order
RECURSIVE SpansFrom(_, _, _)
SpansFrom(s, p, n) ==
    IF p > n THEN <<>>
    ELSE LET here == {w \in s : w[1] = p}
         IN (IF here = {} THEN <<>> ELSE <<CHOOSE w \in here : TRUE>>)
                \o SpansFrom(s, p + 1, n)

\* find_spelling_errors: the words longer than 2 that the dictionary does not
\* hold in lower case and that have a candidate, in the order of the text
find_spelling_errors(text) ==
    LET flagged == {w \in WordSpans(text) :
                       /\ w[2] - w[1] > 2
                       /\ lower(SubSeq(text, w[1] + 1, w[2])) \notin Dictionary
                       /\ Candidates(SubSeq(text, w[1] + 1, w[2])) # <<>>}
        spans == SpansFrom(flagged, 0, Len(text))
    IN [i \in 1..Len(spans) |-> SpellingError(text, spans[i])]

\* the texts the user has typed into the widget
TypedTexts ==
    { <<"a", "b", "b", " ", "b", "b", "a">>,
      <<" ", "c", "c", "c", " ", "b", "b", "a">>,
      <<"A", "b", "a", " ", "a", "b", "b", "1">>,
      <<"a", "b", " ", "a", "b", "b", "a", "b">> }

DialogInit ==
    /\ clock = 1
    /\ file = Missing
    /\ history = <<>>
    /\ ioFailures = 0
    /\ nAdds = 0 - 1
    /\ last = Call("init", FALSE, "None", "none", FALSE)
    /\ NoQuery /\ NoConversation /\ NoGenerate
    /\ input_text \in TypedTexts
    /\ dialog = "closed"
    /\ errors = <<>>
    /\ corrections = <<>>
    /\ ignored_indices = {}
    /\ original_text = <<>>
    /\ applied = <<>>

\* spell_check_prompt: nothing is shown for an empty text or a text without errors
spell_check_prompt ==
    LET input_content == Strip(input_text)
    IN /\ dialog = "closed"
       /\ Len(input_content) <= MaxCheckedLen
       /\ input_content # <<>>
       /\ find_spelling_errors(input_content) # <<>>
       /\ dialog' = "open"
       /\ errors' = find_spelling_errors(input_content)
       /\ original_text' = input_content
       /\ corrections' = <<>>
       /\ ignored_indices' = {}
       /\ applied' = <<>>
       /\ UNCHANGED input_text
       /\ UNCHANGED <<history, file, clock, ioFailures, nAdds, last>>
       /\ UNCHANGED <<queryVars, conversationVars, generateVars>>

\* the Apply button of error idx, replacement being the suggestion chosen
apply_single(idx, replacement) ==
    /\ dialog = "open"
    /\ idx \in 0..(Len(errors) - 1)
    /\ \E k \in 1..Len(errors[idx + 1].suggestions) :
           replacement = errors[idx + 1].suggestions[k]
    /\ IF idx \notin ignored_indices
       THEN LET c == Correction(errors[idx + 1].start, errors[idx + 1].end, replacement)
            IN /\ corrections' = Append(corrections, c)
               /\ ignored_indices' = ignored_indices \cup {idx}
               /\ input_text' = Corrected(input_text, <<c>>)
               /\ applied' = Append(applied, c)
       ELSE UNCHANGED <<corrections, ignored_indices, input_text, applied>>
    /\ UNCHANGED <<dialog, errors, original_text>>
    /\ UNCHANGED <<history, file, clock, ioFailures, nAdds, last>>
    /\ UNCHANGED <<queryVars, conversationVars, generateVars>>

\* the Ignore button of error idx
ignore_single(idx) ==
    /\ dialog = "open"
    /\ idx \in 0..(Len(errors) - 1)
    /\ ignored_indices' = ignored_indices \cup {idx}
    /\ UNCHANGED <<input_text, dialog, errors, corrections, original_text, applied>>
    /\ UNCHANGED <<history, file, clock, ioFailures, nAdds, last>>
    /\ UNCHANGED <<queryVars, conversationVars, generateVars>>

\* a slip of apply_all: the errors already handled are collected again
RECURSIVE ToApplyEvery(_, _, _)
ToApplyEvery(errs, ignored, idx) ==
    IF idx >= Len(errs) THEN <<>>
    ELSE (IF errs[idx + 1].suggestions # <<>>
          THEN << Correction(errs[idx + 1].start, errs[idx + 1].end,
                             errs[idx + 1].suggestions[1]) >>
          ELSE <<>>)
             \o ToApplyEvery(errs, ignored, idx + 1)

\* the corrections apply_all collects: the first suggestion of every error that
\* is not in ignored_indices, in the order of the errors
RECURSIVE ToApply(_, _, _)
ToApply(errs, ignored, idx) ==
    IF idx >= Len(errs) THEN <<>>
    ELSE (IF idx \notin ignored /\ errs[idx + 1].suggestions # <<>>
          THEN << Correction(errs[idx + 1].start, errs[idx + 1].end,
                             errs[idx + 1].suggestions[1]) >>
          ELSE <<>>)
             \o ToApply(errs, ignored, idx + 1)

\* the Apply All button: the dialog is destroyed when there was something to apply
apply_all ==
    LET corrections_to_apply == ToApply(errors, ignored_indices, 0)
    IN /\ dialog = "open"
       /\ IF corrections_to_apply # <<>>
          THEN /\ input_text' = Corrected(input_text, corrections_to_apply)
               /\ applied' = applied \o corrections_to_apply
               /\ dialog' = "closed"
          ELSE UNCHANGED <<input_text, applied, dialog>>
       /\ UNCHANGED <<errors, corrections, ignored_indices, original_text>>
       /\ UNCHANGED <<history, file, clock, ioFailures, nAdds, last>>
       /\ UNCHANGED <<queryVars, conversationVars, generateVars>>

\* the Close button: self.destroy
destroy ==
    /\ dialog = "open"
    /\ dialog' = "closed"
    /\ UNCHANGED <<input_text, errors, corrections, ignored_indices, original_text, applied>>
    /\ UNCHANGED <<history, file, clock, ioFailures, nAdds, last>>
    /\ UNCHANGED <<queryVars, conversationVars, generateVars>>

\* the corrections auto_spell_check builds: the first suggestion of every
\* error, or the word itself when it has none
FirstSuggestions(errs) ==
    [i \in 1..Len(errs) |->
        Correction(errs[i].start, errs[i].end,
                   IF errs[i].suggestions # <<>> THEN errs[i].suggestions[1]
                   ELSE errs[i].word)]

\* auto_spell_check: every error is corrected without a dialog; nothing is done
\* for an empty text or a text without errors
auto_spell_check ==
    LET input_content == Strip(input_text)
        found == find_spelling_errors(input_content)
    IN /\ dialog = "closed"
       /\ Len(input_content) <= MaxCheckedLen
       /\ input_content # <<>>
       /\ found # <<>>
       /\ input_text' = Corrected(input_text, FirstSuggestions(found))
       /\ applied' = FirstSuggestions(found)
       /\ original_text' = input_content
       /\ errors' = <<>>
       /\ corrections' = <<>>
       /\ ignored_indices' = {}
       /\ UNCHANGED dialog
       /\ UNCHANGED <<history, file, clock, ioFailures, nAdds, last>>
       /\ UNCHANGED <<queryVars, conversationVars, generateVars>>

\* the suggestions a dialog can offer
Suggested == UNION {{errors[i].suggestions[k] : k \in 1..Len(errors[i].suggestions)} :
                       i \in 1..Len(errors)}

DialogNext ==
    \/ spell_check_prompt
    \/ \E idx \in 0..(Len(errors) - 1), replacement \in Suggested :
           apply_single(idx, replacement)
    \/ \E idx \in 0..(Len(errors) - 1) : ignore_single(idx)
    \/ apply_all
    \/ destroy
    \/ auto_spell_check

SpecDialog == DialogInit /\ [][DialogNext]_vars

----------------------------------------------------------------------------
(* Properties of the spell-check dialog *)

\* C20: corrections are applied without positional drift in the spell-check
\* dialog: for errors found on one original text, applying their corrections
\* one at a time with apply_single, in any order, and then perhaps the rest
\* with apply_all, leaves the same input text as applying all those corrections
\* together to the original text, also when a replacement and its word differ
\* in length.
C20_NoDrift ==
    applied # <<>> => input_text = Corrected(original_text, applied)

\* the words of a text that find_spelling_errors is to flag: longer than 2 and,
\* in lower case, not in the dictionary
Misspelled(text) ==
    {w \in WordSpans(text) :
        /\ w[2] - w[1] > 2
        /\ lower(SubSeq(text, w[1] + 1, w[2])) \notin Dictionary}

\* C21: spelling detection flags an alphabetic word exactly when its length is
\* greater than 2 and its lower-cased form is not in the dictionary: a word of
\* length <= 2 is never flagged, every longer word missing from the dictionary
\* is flagged, and each flagged word carries at most 5 suggestions.  Stated of
\* the errors the dialog was opened with.
C21_Detection ==
    dialog = "open" =>
        /\ {<<errors[i].start, errors[i].end>> : i \in 1..Len(errors)}
               = Misspelled(original_text)
        /\ \A i \in 1..Len(errors) : Len(errors[i].suggestions) <= 5

\* the errors es lie in the text in ascending order without overlap, and each
\* holds the word of its span
ErrorsFit(text, es) ==
    /\ \A i \in 1..Len(es) :
           /\ 0 <= es[i].start
           /\ es[i].start <= es[i].end
           /\ es[i].end <= Len(text)
           /\ SubSeq(text, es[i].start + 1, es[i].end) = es[i].word
    /\ \A i \in 1..(Len(es) - 1) : es[i].end <= es[i + 1].start

----------------------------------------------------------------------------
(* generate_ml_prompt: the request to the API with the conversation as     *)
(* context.  The API answers (outcome "ok", with Reply) or raises; every   *)
(* exception inside the method is caught and gives the fallback.           *)

ClientTypes == {"none", "openai", "anthropic"}

ApiOutcomes == {"ok", "raises"}

\* ai_response
Reply == <<"r">>

\* the inputs generate_ml_prompt is given
UserInputs == {<<"a">>, <<"b">>}

\* build_universal_prompt
build_universal_prompt(user_input) == user_input

\* `for msg in self.conversation_history` with msg['role']: TypeError for None
\* and for a string that is not empty
Iterable(h) == h.type \in {"list", "dict"}

\* one add_to_conversation on a list: what it leaves in memory and in the file
Added(h, f, role, content, io) ==
    LET items == Append(h.items, Message(role, content))
    IN [history |-> PyList(TrimTail(items)),
        file |-> save_conversation(items, f, io)]

\* what generate_ml_prompt does without the log and the file
Fallback(h, f, user_input, called) ==
    [history |-> h, file |-> f, result |-> build_universal_prompt(user_input),
     api |-> called, writes |-> 0]

\* a slip of generate_ml_prompt: the user message is added before the request
GeneratedEager(h, f, user_input, ct, outcome, io1, io2) ==
    IF ~Iterable(h) \/ ct = "none" THEN Fallback(h, f, user_input, "notcalled")
    ELSE IF h.type # "list" THEN Fallback(h, f, user_input, outcome)
    ELSE LET first == Added(h, f, "user", user_input, io1)
             second == Added(first.history, first.file, "assistant", Reply, io2)
         IN IF outcome = "raises"
            THEN [history |-> first.history, file |-> first.file,
                  result |-> build_universal_prompt(user_input),
                  api |-> "raises", writes |-> 2]
            ELSE [history |-> second.history, file |-> second.file,
                  result |-> Reply, api |-> "ok", writes |-> 2]

\* generate_ml_prompt on the log h and the file f with the client type ct: the
\* log and the file it leaves, what it returns, what became of the API call
\* and how many writes of the file it made
Generated(h, f, user_input, ct, outcome, io1, io2) ==
    IF ~Iterable(h) \/ ct = "none" THEN Fallback(h, f, user_input, "notcalled")
    ELSE IF outcome = "raises" THEN Fallback(h, f, user_input, "raises")
    ELSE IF h.type # "list" THEN Fallback(h, f, user_input, "ok")
    ELSE LET first == Added(h, f, "user", user_input, io1)
             second == Added(first.history, first.file, "assistant", Reply, io2)
         IN [history |-> second.history, file |-> second.file,
             result |-> Reply, api |-> "ok", writes |-> 2]

\* the writes among ios that fail
Failures(ios) == Cardinality({i \in 1..Len(ios) : ios[i] # "ok"})

\* the conversation files of the start: none, files without a list, and a
\* file the program wrote
ExchangeFiles ==
    { ConversationFile("missing", PyList(<<>>)),
      ConversationFile("ok", PyNone),
      ConversationFile("ok", PyStr),
      ConversationFile("ok", PyEmptyObject),
      ConversationFile("ok", PyList(<< Message("user", <<"a">>), Message("assistant", Reply) >>)) }

ExchangeInit ==
    /\ clock = 1
    /\ file = Missing
    /\ history = <<>>
    /\ ioFailures = 0
    /\ nAdds = 0 - 1
    /\ last = Call("init", FALSE, "None", "none", FALSE)
    /\ conversation_file \in ExchangeFiles
    /\ conversation_history = load_conversation(conversation_file)
    /\ appended = Appended(conversation_history = PyList(<<>>), <<>>)
    /\ NoQuery /\ NoText
    /\ client_type \in ClientTypes
    /\ api = "none"
    /\ generate_button = [is_disabled |-> FALSE, is_hovered |-> FALSE, is_pressed |-> FALSE]
    /\ pointer = [inside |-> FALSE, down |-> FALSE]
    /\ scheduled = 0
    /\ frames = <<>>
    /\ done = [op |-> "none"]

generate_ml_prompt(user_input, outcome, io1, io2) ==
    LET g == Generated(conversation_history, conversation_file, user_input,
                       client_type, outcome, io1, io2)
        failed == Failures(<<io1, io2>>)
    IN /\ g.api = "notcalled" => outcome = "ok"
       /\ g.writes = 0 => failed = 0
       /\ ioFailures + failed <= MaxIoFailures
       /\ ioFailures' = ioFailures + failed
       /\ conversation_history' = g.history
       /\ conversation_file' = g.file
       /\ api' = g.api
       /\ ret' = Returned("generate_ml_prompt", user_input, "str", g.result, FALSE)
       /\ last' = Call("generate_ml_prompt", FALSE, "None", io2,
                       g.writes > 0 /\ Len(conversation_history.items) + 2
                                          > max_conversation_turns * 2)
       /\ UNCHANGED <<history, file, clock, nAdds, export_file, appended, textVars>>
       /\ UNCHANGED <<client_type, generate_button, pointer, scheduled, frames, done>>

ExchangeNext ==
    \/ \E user_input \in UserInputs, outcome \in ApiOutcomes, io1, io2 \in IoOutcomes :
           generate_ml_prompt(user_input, outcome, io1, io2)
    \/ \E io \in IoOutcomes : clear_conversation(io)
    \/ Restart

SpecExchange == ExchangeInit /\ [][ExchangeNext]_vars

----------------------------------------------------------------------------
(* Properties of generate_ml_prompt *)

\* C25: generate_ml_prompt changes the conversation log only on success: when
\* the API call succeeds it appends exactly two messages, the user input and
\* then the assistant reply, in that order (the log being cut to its last
\* max_conversation_turns * 2 messages by the save); when the API call raises
\* or no client type is configured it returns the user input unchanged and
\* leaves conversation_history and the conversation file untouched.
C25_LogOnlyOnSuccess ==
    [][last'.op = "generate_ml_prompt" =>
          LET grown == conversation_history.items
                           \o << Message("user", ret'.arg), Message("assistant", ret'.value) >>
          IN /\ api' = "ok" =>
                    conversation_history' =
                        PyList(LastN(grown, Min(Len(grown), max_conversation_turns * 2)))
             /\ api' # "ok" =>
                    /\ ret'.value = ret'.arg
                    /\ UNCHANGED <<conversation_history, conversation_file>>]_vars

\* user, assistant, user, assistant, ...
Alternates(items) ==
    \A i \in 1..Len(items) :
        items[i].role = IF i % 2 = 1 THEN "user" ELSE "assistant"

\* C26: starting from an empty or cleared conversation log, after every
\* completed generate_ml_prompt call, also past the cap, the log alternates
\* user, assistant, ..., begins with a user message, has even length, and has
\* at most max_conversation_turns user messages.
C26_Alternates ==
    appended.valid =>
        /\ conversation_history.type = "list"
        /\ Alternates(conversation_history.items)
        /\ Len(conversation_history.items) % 2 = 0
        /\ CountUser(conversation_history.items) <= max_conversation_turns

\* a call has succeeded on a log that was full, which began empty
C26_Witness ==
    /\ appended.valid
    /\ last.op = "generate_ml_prompt"
    /\ last.trimmed
    /\ api = "ok"
    /\ Len(conversation_history.items) = max_conversation_turns * 2
    /\ conversation_history.items[1].role = "user"

----------------------------------------------------------------------------
(* validate_and_sanitize_input, as a function of the text of the widget.   *)

\* the longest raw text
MaxRawLen == 6

\* text.replace('\r\n', '\n')
RECURSIVE ReplaceCRLF(_)
ReplaceCRLF(text) ==
    IF text = <<>> THEN <<>>
    ELSE IF Len(text) >= 2 /\ text[1] = "\r" /\ text[2] = "\n"
         THEN <<"\n">> \o ReplaceCRLF(SubSeq(text, 3, Len(text)))
         ELSE <<Head(text)>> \o ReplaceCRLF(Tail(text))

\* text.replace('\r', '\n')
ReplaceCR(text) == [i \in 1..Len(text) |-> IF text[i] = "\r" THEN "\n" ELSE text[i]]

\* text.split('\n'): the lines, one more than there are newlines
RECURSIVE Split(_)
Split(text) ==
    LET breaks == {i \in 1..Len(text) : text[i] = "\n"}
    IN IF breaks = {} THEN <<text>>
       ELSE LET i == CHOOSE k \in breaks : \A j \in breaks : k <= j
            IN <<SubSeq(text, 1, i - 1)>> \o Split(SubSeq(text, i + 1, Len(text)))

\* a slip of the list comprehension: the lines are left as they are
KeepLines(lines) == lines

\* [line.strip() for line in lines]
StripLines(lines) == [i \in 1..Len(lines) |-> Strip(lines[i])]

\* '\n'.join(lines)
RECURSIVE Join(_)
Join(lines) ==
    IF lines = <<>> THEN <<>>
    ELSE IF Len(lines) = 1 THEN lines[1]
    ELSE lines[1] \o <<"\n">> \o Join(Tail(lines))

\* '\n\n\n' in text
HasBlankRun(text) ==
    \E i \in 1..(Len(text) - 2) : text[i] = "\n" /\ text[i + 1] = "\n" /\ text[i + 2] = "\n"

\* text.replace('\n\n\n', '\n\n'): one pass from the left over the occurrences
\* that do not overlap
RECURSIVE CollapsePass(_)
CollapsePass(text) ==
    IF Len(text) >= 3 /\ text[1] = "\n" /\ text[2] = "\n" /\ text[3] = "\n"
    THEN <<"\n", "\n">> \o CollapsePass(SubSeq(text, 4, Len(text)))
    ELSE IF text = <<>> THEN <<>>
    ELSE <<Head(text)>> \o CollapsePass(Tail(text))

\* a slip of the loop: the replacement is made once
CollapsedOnce(text) == CollapsePass(text)

\* while '\n\n\n' in text: text = text.replace('\n\n\n', '\n\n')
RECURSIVE Collapsed(_)
Collapsed(text) ==
    IF HasBlankRun(text) THEN Collapsed(CollapsePass(text)) ELSE text

validate_and_sanitize_input(text) ==
    Collapsed(Join(StripLines(Split(ReplaceCR(ReplaceCRLF(Strip(text)))))))

\* the characters of the raw texts
RawChars == {"a", " ", "\n", "\r"}

\* the raw texts
RawTexts == UNION {[1..n -> RawChars] : n \in 0..MaxRawLen}

SanitizeInit ==
    /\ clock = 1
    /\ file = Missing
    /\ history = <<>>
    /\ ioFailures = 0
    /\ nAdds = 0 - 1
    /\ last = Call("init", FALSE, "None", "none", FALSE)
    /\ NoQuery /\ NoConversation /\ NoGenerate
    /\ input_text \in RawTexts
    /\ dialog = "closed"
    /\ errors = <<>>
    /\ corrections = <<>>
    /\ ignored_indices = {}
    /\ original_text = <<>>
    /\ applied = <<>>

\* the function is applied to the text of the widget
sanitize ==
    /\ ret.op = "none"
    /\ ret' = Returned("validate_and_sanitize_input", input_text, "first",
                       validate_and_sanitize_input(input_text), FALSE)
    /\ UNCHANGED <<history, file, clock, ioFailures, nAdds, last, export_file>>
    /\ UNCHANGED <<conversationVars, textVars, generateVars>>

\* the function is applied to what it returned
sanitize_again ==
    /\ ret.op = "validate_and_sanitize_input"
    /\ ret.kind = "first"
    /\ ret' = Returned("validate_and_sanitize_input", ret.value, "again",
                       validate_and_sanitize_input(ret.value), FALSE)
    /\ UNCHANGED <<history, file, clock, ioFailures, nAdds, last, export_file>>
    /\ UNCHANGED <<conversationVars, textVars, generateVars>>

SanitizeNext == sanitize \/ sanitize_again

SpecSanitize == SanitizeInit /\ [][SanitizeNext]_vars

----------------------------------------------------------------------------
(* Properties of validate_and_sanitize_input *)

\* no carriage return, no line with white space at either end, no three
\* newlines in a row
Sanitized(text) ==
    /\ \A i \in 1..Len(text) : text[i] # "\r"
    /\ \A i \in 1..Len(text) :
           text[i] = " " =>
               /\ i > 1 /\ text[i - 1] # "\n"
               /\ i < Len(text) /\ text[i + 1] # "\n"
    /\ \A i \in 1..(Len(text) - 2) :
           ~(text[i] = "\n" /\ text[i + 1] = "\n" /\ text[i + 2] = "\n")

\* C29: validate_and_sanitize_input is idempotent: its output has no carriage
\* return, no line with leading or trailing white space and no run of three or
\* more newlines, and applying it again to its own output returns that output
\* unchanged.
C29_Sanitize ==
    ret.op = "validate_and_sanitize_input" =>
        /\ Sanitized(ret.value)
        /\ ret.kind = "again" => ret.value = ret.arg

\* the function was applied again to an output in which it had cut a run of
\* four line breaks, a carriage return among them, down to a blank line
C29_Witness ==
    /\ ret.op = "validate_and_sanitize_input"
    /\ ret.kind = "again"
    /\ ret.value = <<"a", "\n", "\n", "a">>
    /\ Cardinality({i \in 1..Len(input_text) : input_text[i] \in {"\n", "\r"}}) >= 4
    /\ \E i \in 1..Len(input_text) : input_text[i] = "\r"
    /\ input_text[1] = "a"
    /\ input_text[Len(input_text)] = "a"

----------------------------------------------------------------------------
(* generate_prompt and the Generate button.  GoldButton.on_release does    *)
(* not call the command: it schedules it with after(50, ...), and the      *)
(* callback runs when the event loop comes to it.  generate_prompt gives   *)
(* control to an event loop in four places: the message boxes "Input       *)
(* Required", "API Not Available" and "Generation Error", which let timer  *)
(* callbacks run and keep the mouse from the main window, and                *)
(* root.update(), which handles every pending event.  An invocation that   *)
(* waits in one of them is a frame; the code between two of these places   *)
(* runs without interruption and is one action.                            *)

\* the callbacks that can be scheduled and not yet run
MaxScheduled == 2

\* the invocations of generate_prompt that can be nested in one another
MaxFrames == 3

\* the texts of the input widget: one that is blank, one that is not
GenerateTexts == { <<" ", "\n">>, <<" ", "a", "\r">> }

\* the conversation files of the start
GenerateFiles ==
    { ConversationFile("missing", PyList(<<>>)),
      ConversationFile("ok", PyStr) }

\* an invocation of generate_prompt that waits in an event loop: where, its
\* sanitized input, the history entries it has added, the API calls it has
\* made, whether it has changed the conversation log, the prompt it displayed
Frame(pc, user_input) ==
    [pc |-> pc, user_input |-> user_input, entries |-> <<>>, calls |-> 0,
     touched |-> FALSE, displayed |-> <<>>]

\* the record of an invocation that has returned, or raised
Done(frame, raised) ==
    [op |-> "generate_prompt", user_input |-> frame.user_input,
     entries |-> frame.entries, calls |-> frame.calls, touched |-> frame.touched,
     displayed |-> frame.displayed, raised |-> raised]

Top == frames[Len(frames)]

Popped == SubSeq(frames, 1, Len(frames) - 1)

\* the mouse is handled: in the main loop and in root.update()
MouseRuns == IF frames = <<>> THEN TRUE ELSE Top.pc = "update"

\* display_prompt up to refresh_history_list: the history and the file that
\* add_entry leaves, and the entry
Displayed(h, f, user_input, prompt, io) ==
    LET entry == PromptHistoryEntry(user_input, prompt, "ml_generated", TsNull, clock)
    IN [history |-> Trim(InsertFront(h, entry)),
        file |-> save_history(Trim(InsertFront(h, entry)), f, io),
        entry |-> entry]

\* update_context_status: get_conversation_summary raises
StatusRaises(h) == Summary(h).kind = "raises"

GenerateInit ==
    /\ clock = 1
    /\ file = Missing
    /\ history = <<>>
    /\ ioFailures = 0
    /\ nAdds = 0 - 1
    /\ last = Call("init", FALSE, "None", "none", FALSE)
    /\ NoQuery
    /\ conversation_file \in GenerateFiles
    /\ conversation_history = load_conversation(conversation_file)
    /\ appended = Appended(conversation_history = PyList(<<>>), <<>>)
    /\ input_text \in GenerateTexts
    /\ dialog = "closed"
    /\ errors = <<>>
    /\ corrections = <<>>
    /\ ignored_indices = {}
    /\ original_text = <<>>
    /\ applied = <<>>
    /\ client_type \in ClientTypes
    /\ api = "none"
    /\ generate_button = [is_disabled |-> FALSE, is_hovered |-> FALSE, is_pressed |-> FALSE]
    /\ pointer = [inside |-> FALSE, down |-> FALSE]
    /\ scheduled = 0
    /\ frames = <<>>
    /\ done = [op |-> "none"]

\* what the mouse actions leave alone
MouseFrame ==
    /\ UNCHANGED <<history, file, clock, ioFailures, nAdds, last>>
    /\ UNCHANGED <<queryVars, conversationVars, textVars>>
    /\ UNCHANGED <<client_type, api, frames, done>>

\* <Enter>
on_enter ==
    /\ MouseRuns
    /\ ~pointer.inside
    /\ pointer' = [pointer EXCEPT !.inside = TRUE]
    /\ generate_button' =
           IF ~generate_button.is_disabled
           THEN [generate_button EXCEPT !.is_hovered = TRUE]
           ELSE generate_button
    /\ UNCHANGED scheduled
    /\ MouseFrame

\* <Leave>
on_leave ==
    /\ MouseRuns
    /\ pointer.inside
    /\ pointer' = [pointer EXCEPT !.inside = FALSE]
    /\ generate_button' = [generate_button EXCEPT !.is_hovered = FALSE, !.is_pressed = FALSE]
    /\ UNCHANGED scheduled
    /\ MouseFrame

\* <Button-1>
on_press ==
    /\ MouseRuns
    /\ pointer.inside
    /\ ~pointer.down
    /\ pointer' = [pointer EXCEPT !.down = TRUE]
    /\ generate_button' =
           IF ~generate_button.is_disabled
           THEN [generate_button EXCEPT !.is_pressed = TRUE]
           ELSE generate_button
    /\ UNCHANGED scheduled
    /\ MouseFrame

\* <ButtonRelease-1>: self.after(50, self.command) when the button is enabled
\* and hovered
on_release ==
    /\ MouseRuns
    /\ pointer.down
    /\ pointer' = [pointer EXCEPT !.down = FALSE]
    /\ IF ~generate_button.is_disabled
       THEN /\ generate_button' = [generate_button EXCEPT !.is_pressed = FALSE]
            /\ IF generate_button.is_hovered
               THEN /\ scheduled < MaxScheduled
                    /\ scheduled' = scheduled + 1
               ELSE UNCHANGED scheduled
       ELSE UNCHANGED <<generate_button, scheduled>>
    /\ MouseFrame

\* a scheduled callback runs: generate_prompt up to its first event loop
generate_prompt ==
    LET user_input == validate_and_sanitize_input(input_text)
    IN /\ scheduled > 0
       /\ Len(frames) < MaxFrames
       /\ scheduled' = scheduled - 1
       /\ IF user_input = <<>>
          THEN /\ frames' = Append(frames, Frame("input_required", user_input))
               /\ UNCHANGED generate_button
          ELSE IF client_type = "none"
          THEN /\ frames' = Append(frames, Frame("api_not_available", user_input))
               /\ UNCHANGED generate_button
          ELSE /\ frames' = Append(frames, Frame("update", user_input))
               /\ generate_button' = [generate_button EXCEPT !.is_disabled = TRUE]
       /\ UNCHANGED <<history, file, clock, ioFailures, nAdds, last>>
       /\ UNCHANGED <<queryVars, conversationVars, textVars>>
       /\ UNCHANGED <<client_type, api, pointer, done>>

\* the box "Input Required" is closed: generate_prompt returns
input_required_closed ==
    /\ frames # <<>>
    /\ Top.pc = "input_required"
    /\ frames' = Popped
    /\ done' = Done(Top, FALSE)
    /\ UNCHANGED <<history, file, clock, ioFailures, nAdds, last>>
    /\ UNCHANGED <<queryVars, conversationVars, textVars>>
    /\ UNCHANGED <<client_type, api, generate_button, pointer, scheduled>>

\* the box "API Not Available" is closed: display_prompt with the fallback;
\* an exception of update_context_status leaves generate_prompt
api_not_available_closed(io) ==
    LET prompt == build_universal_prompt(Top.user_input)
        d == Displayed(history, file, Top.user_input, prompt, io)
        frame == [Top EXCEPT !.entries = Append(@, d.entry), !.displayed = prompt]
    IN /\ frames # <<>>
       /\ Top.pc = "api_not_available"
       /\ history' = d.history
       /\ file' = d.file
       /\ Write(io)
       /\ frames' = Popped
       /\ done' = Done(frame, StatusRaises(conversation_history))
       /\ UNCHANGED <<clock, nAdds, last>>
       /\ UNCHANGED <<queryVars, conversationVars, textVars>>
       /\ UNCHANGED <<client_type, api, generate_button, pointer, scheduled>>

\* root.update() returns: generate_ml_prompt and display_prompt; an exception
\* of display_prompt opens the box "Generation Error", else the button is
\* enabled again and generate_prompt returns
update_returns(outcome, io1, io2, io) ==
    LET g == Generated(conversation_history, conversation_file, Top.user_input,
                       client_type, outcome, io1, io2)
        d == Displayed(history, file, Top.user_input, g.result, io)
        failed == Failures(<<io1, io2, io>>)
        frame == [Top EXCEPT !.entries = Append(@, d.entry),
                             !.calls = IF g.api = "notcalled" THEN @ ELSE @ + 1,
                             !.touched = g.history # conversation_history,
                             !.displayed = g.result]
    IN /\ frames # <<>>
       /\ Top.pc = "update"
       /\ g.api = "notcalled" => outcome = "ok"
       /\ g.writes = 0 => io1 = "ok" /\ io2 = "ok"
       /\ ioFailures + failed <= MaxIoFailures
       /\ ioFailures' = ioFailures + failed
       /\ conversation_history' = g.history
       /\ conversation_file' = g.file
       /\ api' = g.api
       /\ history' = d.history
       /\ file' = d.file
       /\ IF StatusRaises(g.history)
          THEN /\ frames' = Append(Popped, [frame EXCEPT !.pc = "generation_error"])
               /\ UNCHANGED <<generate_button, done>>
          ELSE /\ frames' = Popped
               /\ generate_button' = [generate_button EXCEPT !.is_disabled = FALSE]
               /\ done' = Done(frame, FALSE)
       /\ UNCHANGED <<clock, nAdds, last, queryVars, appended, textVars>>
       /\ UNCHANGED <<client_type, pointer, scheduled>>

\* the box "Generation Error" is closed: display_prompt with the fallback, and
\* the finally clause enables the button whether or not it raises again
generation_error_closed(io) ==
    LET prompt == build_universal_prompt(Top.user_input)
        d == Displayed(history, file, Top.user_input, prompt, io)
        frame == [Top EXCEPT !.entries = Append(@, d.entry), !.displayed = prompt]
    IN /\ frames # <<>>
       /\ Top.pc = "generation_error"
       /\ history' = d.history
       /\ file' = d.file
       /\ Write(io)
       /\ frames' = Popped
       /\ generate_button' = [generate_button EXCEPT !.is_disabled = FALSE]
       /\ done' = Done(frame, StatusRaises(conversation_history))
       /\ UNCHANGED <<clock, nAdds, last>>
       /\ UNCHANGED <<queryVars, conversationVars, textVars>>
       /\ UNCHANGED <<client_type, api, pointer, scheduled>>

GenerateNext ==
    \/ on_enter
    \/ on_leave
    \/ on_press
    \/ on_release
    \/ generate_prompt
    \/ input_required_closed
    \/ \E io \in IoOutcomes : api_not_available_closed(io)
    \/ \E outcome \in ApiOutcomes, io1, io2, io \in IoOutcomes :
           update_returns(outcome, io1, io2, io)
    \/ \E io \in IoOutcomes : generation_error_closed(io)

SpecGenerate == GenerateInit /\ [][GenerateNext]_vars

----------------------------------------------------------------------------
(* Properties of generate_prompt *)

Generating == \E i \in 1..Len(frames) : frames[i].pc \in {"update", "generation_error"}

\* C28: generations do not overlap: from the moment generate_prompt disables
\* the Generate button until it re-enables it, no second generate_prompt
\* invocation starts, for any interleaving of press, release, enter and leave
\* events, delayed command callbacks and the event processing of
\* root.update(); and the button is re-enabled on every exit path.
C28_NoOverlap ==
    /\ [][Len(frames') > Len(frames) => ~Generating]_vars
    /\ [][(Len(frames') < Len(frames) /\ Top.pc \in {"update", "generation_error"})
              => ~generate_button'.is_disabled]_vars

----------------------------------------------------------------------------
(* A further property of the history store *)

\* C22: add_entry on a store S yields exactly [new entry] followed by the
\* entries of S in their previous order, cut to the first max_history entries:
\* an existing entry is removed only when the store was already at capacity,
\* and then only the entry at the last index is removed.
C22_AddEntry ==
    [][\A a \in AddInputs, io \in IoOutcomes :
          (last'.op = "add" /\ add_entry(a[1], a[2], a[3], io)) =>
              LET entry == [user_input |-> a[1], generated_prompt |-> a[2],
                            template_id |-> a[3], timestamp |-> Now(clock)]
                  grown == <<entry>> \o history
              IN /\ history' = SubSeq(grown, 1, Min(Len(grown), max_history))
                 /\ Len(history') <= Len(history) =>
                        /\ Len(history) = max_history
                        /\ history' = <<entry>> \o SubSeq(history, 1, Len(history) - 1)]_vars

====
